---- MODULE Spec2Model ----
(***************************************************************************)
(* Model of evmap-osm: the download / parse / transform / write pipeline  *)
(* of src/main.rs and the library functions of src/overpass.rs and        *)
(* src/utils.rs.                                                           *)
(*                                                                         *)
(* Numbers that do not fit a 32-bit integer (u32 and u64 values, file     *)
(* sizes) are naturals written as little-endian sequences of base-1024    *)
(* limbs without leading zero limbs; <<>> is zero.                        *)
(***************************************************************************)
EXTENDS Integers, Sequences, FiniteSets, TLC

\* ------------------------------------------------------------------------
\* Bounds of the model
\* ------------------------------------------------------------------------
MaxElems == 2
MaxId == 2
MaxMult == 2
MaxSmallTimeout == 1

\* ------------------------------------------------------------------------
\* Naturals of arbitrary size
\* ------------------------------------------------------------------------
\* a limb holds 10 bits
Base == 2 ^ 10

RECURSIVE FromInt(_)
FromInt(n) == IF n = 0 THEN <<>> ELSE <<n % Base>> \o FromInt(n \div Base)

RECURSIVE Normalize(_)
Normalize(a) ==
    IF a = <<>> THEN <<>>
    ELSE IF a[Len(a)] = 0 THEN Normalize(SubSeq(a, 1, Len(a) - 1))
    ELSE a

Zeros(k) == [i \in 1..k |-> 0]

\* a + c for a small carry c
RECURSIVE AddSmall(_, _)
AddSmall(a, c) ==
    IF c = 0 THEN a
    ELSE IF a = <<>> THEN FromInt(c)
    ELSE LET v == Head(a) + c
         IN  <<v % Base>> \o AddSmall(Tail(a), v \div Base)

RECURSIVE AddCarry(_, _, _)
AddCarry(a, b, c) ==
    IF a = <<>> THEN AddSmall(b, c)
    ELSE IF b = <<>> THEN AddSmall(a, c)
    ELSE LET v == Head(a) + Head(b) + c
         IN  <<v % Base>> \o AddCarry(Tail(a), Tail(b), v \div Base)

Add(a, b) == AddCarry(a, b, 0)

\* a - c for a small c < Base and a >= c
RECURSIVE SubSmall(_, _)
SubSmall(a, c) ==
    IF c = 0 THEN a
    ELSE LET v == Head(a) - c
         IN  IF v >= 0 THEN Normalize(<<v>> \o Tail(a))
             ELSE Normalize(<<v + Base>> \o SubSmall(Tail(a), 1))

Pred(a) == SubSmall(a, 1)

\* a * m + c for small m, c
RECURSIVE MulSmallFrom(_, _, _)
MulSmallFrom(a, m, c) ==
    IF a = <<>> THEN FromInt(c)
    ELSE LET v == Head(a) * m + c
         IN  <<v % Base>> \o MulSmallFrom(Tail(a), m, v \div Base)

MulSmall(a, m) == Normalize(MulSmallFrom(a, m, 0))

\* quotient and remainder of a by a small d
RECURSIVE DivRem(_, _)
DivRem(a, d) ==
    IF a = <<>> THEN [q |-> <<>>, r |-> 0]
    ELSE LET hi  == DivRem(Tail(a), d)
             cur == hi.r * Base + Head(a)
         IN  [q |-> Normalize(<<cur \div d>> \o hi.q), r |-> cur % d]

\* -1, 0, 1 as a < b, a = b, a > b
RECURSIVE CmpFromTop(_, _, _)
CmpFromTop(a, b, i) ==
    IF i = 0 THEN 0
    ELSE IF a[i] < b[i] THEN -1
    ELSE IF a[i] > b[i] THEN 1
    ELSE CmpFromTop(a, b, i - 1)

Cmp(a, b) ==
    IF Len(a) < Len(b) THEN -1
    ELSE IF Len(a) > Len(b) THEN 1
    ELSE CmpFromTop(a, b, Len(a))

Less(a, b) == Cmp(a, b) < 0
Leq(a, b) == Cmp(a, b) <= 0

ShrLimbs(a, k) == IF k >= Len(a) THEN <<>> ELSE SubSeq(a, k + 1, Len(a))

\* floor(a / 2^n)
ShrBits(a, n) == DivRem(ShrLimbs(a, n \div 10), 2 ^ (n % 10)).q

\* a * 2^n
ShlBits(a, n) ==
    IF a = <<>> THEN <<>>
    ELSE Zeros(n \div 10) \o MulSmall(a, 2 ^ (n % 10))

\* a mod 2^n
ModBits(a, n) ==
    LET k == n \div 10
        r == n % 10
    IN  IF Len(a) <= k THEN a
        ELSE Normalize(SubSeq(a, 1, k) \o <<a[k + 1] % (2 ^ r)>>)

BitLen(a) ==
    IF a = <<>> THEN 0
    ELSE (Len(a) - 1) * 10
         + (CHOOSE b \in 1..10 : 2 ^ (b - 1) <= a[Len(a)] /\ a[Len(a)] < 2 ^ b)

IsOdd(a) == a # <<>> /\ a[1] % 2 = 1

\* a / 2^n rounded to the nearest integer, ties to even
RoundShr(a, n) ==
    IF n = 0 THEN a
    ELSE LET q == ShrBits(a, n)
             c == Cmp(ModBits(a, n), ShlBits(FromInt(1), n - 1))
         IN  IF c > 0 \/ (c = 0 /\ IsOdd(q)) THEN AddSmall(q, 1) ELSE q

Pow2(n) == ShlBits(FromInt(1), n)
U32Max == Pred(Pow2(32))
U64Max == Pred(Pow2(64))

\* ------------------------------------------------------------------------
\* Text: a sequence of pieces, numbers rendered one character per digit
\* ------------------------------------------------------------------------
DigitChar == <<"0", "1", "2", "3", "4", "5", "6", "7", "8", "9">>

RECURSIVE DecimalDigits(_)
DecimalDigits(a) ==
    IF a = <<>> THEN <<>>
    ELSE LET d == DivRem(a, 10)
         IN  DecimalDigits(d.q) \o <<DigitChar[d.r + 1]>>

\* Display of an unsigned integer ("{}")
Decimal(a) == IF a = <<>> THEN <<"0">> ELSE DecimalDigits(a)

\* Reading a digit sequence back as a number
DigitValue(c) == (CHOOSE i \in 1..10 : DigitChar[i] = c) - 1
IsDigits(s) == Len(s) > 0 /\ \A i \in 1..Len(s) : \E j \in 1..10 : DigitChar[j] = s[i]

RECURSIVE DecodeDecimal(_)
DecodeDecimal(s) ==
    IF s = <<>> THEN <<>>
    ELSE Normalize(MulSmallFrom(DecodeDecimal(SubSeq(s, 1, Len(s) - 1)), 10,
                                DigitValue(s[Len(s)])))

Last(s) == s[Len(s)]
Front(s) == SubSeq(s, 1, Len(s) - 1)

\* ------------------------------------------------------------------------
\* utils.rs: format_bytes, and main.rs: get_file_size_human
\* ------------------------------------------------------------------------

\* `size as f64`: the nearest value with a 53-bit significand, ties to even.
\* Every such value of a u64 is an integer, kept here exactly.
AsF64(size) ==
    LET n == BitLen(size)
    IN  IF n <= 53 THEN size ELSE ShlBits(RoundShr(size, n - 53), n - 53)

\* "{:.1}" of value / 2^shift: the float quotient by a power of two is exact,
\* and the formatter rounds the exact value to one decimal, ties to even.
FormatFixed1(value, shift) ==
    LET ds     == Decimal(RoundShr(MulSmall(value, 10), shift))
        padded == IF Len(ds) = 1 THEN <<"0">> \o ds ELSE ds
    IN  Front(padded) \o <<".", Last(padded)>>

UNITS == << <<"B", FromInt(1)>>,
            <<"K", FromInt(1024)>>,
            <<"M", FromInt(1024 * 1024)>>,
            <<"G", FromInt(1024 * 1024 * 1024)>> >>

\* binary logarithm of a unit (each is a power of two)
UnitShift(i) == BitLen(UNITS[i][2]) - 1

\* Mutant: the comparison with the unit strict
RECURSIVE FormatBytesFromGt(_, _)
FormatBytesFromGt(size, i) ==
    IF i < 2 THEN Decimal(size) \o <<UNITS[1][1]>>
    ELSE IF Less(UNITS[i][2], size)
         THEN FormatFixed1(AsF64(size), UnitShift(i)) \o <<UNITS[i][1]>>
         ELSE FormatBytesFromGt(size, i - 1)

\* the loop of format_bytes over the units above "B", largest first
RECURSIVE FormatBytesFrom(_, _)
FormatBytesFrom(size, i) ==
    IF i < 2 THEN Decimal(size) \o <<UNITS[1][1]>>
    ELSE IF ~Less(size, UNITS[i][2])
         THEN FormatFixed1(AsF64(size), UnitShift(i)) \o <<UNITS[i][1]>>
         ELSE FormatBytesFrom(size, i - 1)

format_bytes(size) == FormatBytesFrom(size, Len(UNITS))

\* main.rs: the same report computed with float thresholds
get_file_size_human(len) ==
    LET size == AsF64(len)
    IN  IF Less(size, FromInt(1024)) THEN Decimal(size) \o <<"B">>
        ELSE IF Less(size, FromInt(1024 * 1024)) THEN FormatFixed1(size, 10) \o <<"K">>
        ELSE IF Less(size, FromInt(1024 * 1024 * 1024)) THEN FormatFixed1(size, 20) \o <<"M">>
        ELSE FormatFixed1(size, 30) \o <<"G">>

\* ------------------------------------------------------------------------
\* Query text and the transport timeout
\* ------------------------------------------------------------------------
QueryHeadMain == "[out:json][timeout:"
QueryTailMain == "]; ( node[amenity=charging_station]; area[amenity=charging_station]; relation[amenity=charging_station]; ); out meta qt;"
QueryHeadLib == "\n        [out:json][timeout:"
QueryTailLib == "];\n        (\n          node[amenity=charging_station];\n          area[amenity=charging_station];\n          relation[amenity=charging_station];\n        );\n        out meta qt;\n        "

\* main.rs: the query built inline
MainQuery(timeout_seconds) == <<QueryHeadMain>> \o Decimal(timeout_seconds) \o <<QueryTailMain>>

\* overpass.rs: build_query
build_query(timeout_seconds) == <<QueryHeadLib>> \o Decimal(timeout_seconds) \o <<QueryTailLib>>

\* u64 addition (wrapping at 2^64)
AddU64(a, b) == ModBits(Add(a, b), 64)

TimeoutBuffer == 30

\* Mutant: the sum taken in u32 before the cast
ClientTimeoutU32(timeout_seconds) == ModBits(Add(timeout_seconds, FromInt(TimeoutBuffer)), 32)

\* main.rs: Duration::from_secs(args.timeout_seconds as u64 + 30)
ClientTimeout(timeout_seconds) == AddU64(timeout_seconds, FromInt(TimeoutBuffer))

\* ------------------------------------------------------------------------
\* Values: Option, Result, JSON
\* ------------------------------------------------------------------------
None == [some |-> FALSE]
Some(v) == [some |-> TRUE, val |-> v]

Ok(v) == [ok |-> TRUE, val |-> v]
Err(e, cause) == [ok |-> FALSE, err |-> e, cause |-> cause]

\* JSON documents: one record shape per kind of value. A float carries its value
\* in tenths; an object is a function from its keys to values. Integers of the
\* model stay below 2^31.
JNull == [null |-> TRUE]
JInt(n) == [int |-> n]
JFloat(x) == [float |-> x]
JStr(s) == [str |-> s]
JArr(s) == [arr |-> s]
JObj(f) == [obj |-> f]
\* an object in the field order its serializer wrote: a sequence of <<key, value>>
JStruct(fields) == [struct |-> fields]
Is(j, kind) == DOMAIN j = {kind}

Keys(fields) == {fields[i][1] : i \in 1..Len(fields)}
Field(fields, k) == fields[CHOOSE i \in 1..Len(fields) : fields[i][1] = k][2]

\* The messages of the errors the code raises
TransportError == "Failed to send request to Overpass API"
RemoteError == "HTTP request failed with status"
BodyError == "Failed to read response body"
ParseError == "Failed to parse Overpass API response as JSON"
EmptyDatasetError == "No elements found in response"
RawWriteError == "Failed to write intermediate file"
ClockError == "Failed to get system time"
CreateError == "Failed to create output file"
WriteError == "Failed to write compressed data"
FinishError == "Failed to finish gzip compression"
ClientError == "Failed to build HTTP client"

\* ------------------------------------------------------------------------
\* Deserialization (serde derive on OverpassResponse and Element)
\* ------------------------------------------------------------------------
InvalidType == "invalid type"
MissingField == "missing field"
Syntax == "syntax"

\* What a value of each field type looks like in JSON, and its decoded value.
\* A u64 or u32 takes a non-negative integer (no float, even a whole one), an
\* f64 takes any number.
Accepts(ty, j) ==
    CASE ty = "u64" -> Is(j, "int") /\ j.int >= 0
      [] ty = "u32" -> Is(j, "int") /\ j.int >= 0
      [] ty = "f64" -> Is(j, "float") \/ Is(j, "int")
      [] ty = "String" -> Is(j, "str")
      [] ty = "HashMap<String, String>" ->
            Is(j, "obj") /\ \A k \in DOMAIN j.obj : Is(j.obj[k], "str")

Decoded(ty, j) ==
    CASE ty = "u64" -> j.int
      [] ty = "u32" -> j.int
      [] ty = "f64" -> IF Is(j, "float") THEN j.float ELSE j.int * 10
      [] ty = "String" -> j.str
      [] ty = "HashMap<String, String>" -> [k \in DOMAIN j.obj |-> j.obj[k].str]

\* struct Element: the type of each field by its JSON name
ElementFields ==
    [k \in {"type", "id", "lat", "lon", "timestamp", "version", "changeset", "user",
            "uid", "tags"} |->
        CASE k \in {"type", "timestamp"} -> "String"
          [] k \in {"id"} -> "u64"
          [] k \in {"lat", "lon"} -> "f64"
          [] k \in {"version"} -> "u32"
          [] k \in {"changeset", "uid"} -> "u64"
          [] k \in {"user"} -> "String"
          [] k \in {"tags"} -> "HashMap<String, String>"]
\* the Option fields, all #[serde(default)]
ElementDefaulted == {"lat", "lon", "changeset", "user", "uid"}

\* a key of the object whose value its field cannot take: an Option field takes
\* null as well
WrongType(schema, defaulted, o, k) ==
    /\ k \in DOMAIN o
    /\ ~Accepts(schema[k], o[k])
    /\ ~(k \in defaulted /\ Is(o[k], "null"))

\* a field without #[serde(default)]
Required(schema, o, k) == Decoded(schema[k], o[k])

\* an Option field with #[serde(default)]: absent or null is None
Defaulted(schema, o, k) ==
    IF k \notin DOMAIN o \/ Is(o[k], "null") THEN None
    ELSE Some(Decoded(schema[k], o[k]))

\* derive(Deserialize) for Element. A value of the wrong type fails while the
\* map is read, a missing field only after it; keys the struct does not name
\* are skipped.
DeElement(j) ==
    IF ~Is(j, "obj") THEN Err(ParseError, InvalidType)
    ELSE IF \E k \in DOMAIN ElementFields :
                WrongType(ElementFields, ElementDefaulted, j.obj, k)
         THEN Err(ParseError, InvalidType)
    ELSE IF \E k \in (DOMAIN ElementFields) \ ElementDefaulted : k \notin DOMAIN j.obj
         THEN Err(ParseError, MissingField)
    ELSE Ok([element_type |-> Required(ElementFields, j.obj, "type"),
             id |-> Required(ElementFields, j.obj, "id"),
             lat |-> Defaulted(ElementFields, j.obj, "lat"),
             lon |-> Defaulted(ElementFields, j.obj, "lon"),
             timestamp |-> Required(ElementFields, j.obj, "timestamp"),
             version |-> Required(ElementFields, j.obj, "version"),
             changeset |-> Defaulted(ElementFields, j.obj, "changeset"),
             user |-> Defaulted(ElementFields, j.obj, "user"),
             uid |-> Defaulted(ElementFields, j.obj, "uid"),
             tags |-> Required(ElementFields, j.obj, "tags")])

\* Vec<Element>: the first element that fails decides
DeElements(j) ==
    IF ~Is(j, "arr") THEN Err(ParseError, InvalidType)
    ELSE IF \E i \in 1..Len(j.arr) : ~DeElement(j.arr[i]).ok
         THEN DeElement(j.arr[CHOOSE i \in 1..Len(j.arr) :
                                 /\ ~DeElement(j.arr[i]).ok
                                 /\ \A k \in 1..(i - 1) : DeElement(j.arr[k]).ok])
    ELSE Ok([i \in 1..Len(j.arr) |-> DeElement(j.arr[i]).val])

\* struct OverpassResponse
ResponseFields ==
    [k \in {"version", "generator"} |-> IF k = "version" THEN "f64" ELSE "String"]

\* Mutant: elements taken as #[serde(default)], an absent list read as empty
DeOverpassResponseDefaultElements(j) ==
    IF ~Is(j, "obj") THEN Err(ParseError, InvalidType)
    ELSE IF \E k \in DOMAIN ResponseFields : WrongType(ResponseFields, {}, j.obj, k)
         THEN Err(ParseError, InvalidType)
    ELSE IF "elements" \in DOMAIN j.obj /\ ~DeElements(j.obj["elements"]).ok
         THEN DeElements(j.obj["elements"])
    ELSE IF \E k \in {"version", "generator"} : k \notin DOMAIN j.obj
         THEN Err(ParseError, MissingField)
    ELSE Ok([version |-> Required(ResponseFields, j.obj, "version"),
             generator |-> Required(ResponseFields, j.obj, "generator"),
             elements |-> IF "elements" \in DOMAIN j.obj
                          THEN DeElements(j.obj["elements"]).val ELSE <<>>])

DeOverpassResponse(j) ==
    IF ~Is(j, "obj") THEN Err(ParseError, InvalidType)
    ELSE IF \E k \in DOMAIN ResponseFields : WrongType(ResponseFields, {}, j.obj, k)
         THEN Err(ParseError, InvalidType)
    ELSE IF "elements" \in DOMAIN j.obj /\ ~DeElements(j.obj["elements"]).ok
         THEN DeElements(j.obj["elements"])
    ELSE IF \E k \in {"version", "generator", "elements"} : k \notin DOMAIN j.obj
         THEN Err(ParseError, MissingField)
    ELSE Ok([version |-> Required(ResponseFields, j.obj, "version"),
             generator |-> Required(ResponseFields, j.obj, "generator"),
             elements |-> DeElements(j.obj["elements"]).val])

\* Response bytes: text that is no JSON at all, or a JSON document
NotJson == [wf |-> FALSE]
Json(doc) == [wf |-> TRUE, doc |-> doc]

\* overpass.rs: parse_response; main.rs: the same call inline
parse_response(response_bytes) ==
    IF ~response_bytes.wf THEN Err(ParseError, Syntax)
    ELSE DeOverpassResponse(response_bytes.doc)

\* main.rs: the probe of the raw bytes for a "remark" string
RemarkProbe(response_bytes) ==
    IF response_bytes.wf
       /\ Is(response_bytes.doc, "obj")
       /\ "remark" \in DOMAIN response_bytes.doc.obj
       /\ Is(response_bytes.doc.obj["remark"], "str")
    THEN Some(response_bytes.doc.obj["remark"].str)
    ELSE None

\* ------------------------------------------------------------------------
\* The projection and its serialization
\* ------------------------------------------------------------------------
\* Mutant: lat and lon taken from each other
ProcessedElementFromSwapped(elem) ==
    [id |-> elem.id, lat |-> elem.lon, lon |-> elem.lat,
     timestamp |-> elem.timestamp, element_type |-> elem.element_type,
     version |-> elem.version, user |-> elem.user, tags |-> elem.tags]

\* impl From<Element> for ProcessedElement
ProcessedElementFrom(elem) ==
    [id |-> elem.id, lat |-> elem.lat, lon |-> elem.lon,
     timestamp |-> elem.timestamp, element_type |-> elem.element_type,
     version |-> elem.version, user |-> elem.user, tags |-> elem.tags]

\* Mutant: the records collected in reverse
MapCollectReversed(elements) ==
    [i \in 1..Len(elements) |-> ProcessedElementFrom(elements[Len(elements) + 1 - i])]

\* elements.into_iter().map(ProcessedElement::from).collect()
MapCollect(elements) == [i \in 1..Len(elements) |-> ProcessedElementFrom(elements[i])]

\* struct ProcessedOutput, built from a clock reading and the elements
MakeProcessedOutput(timestamp, count, elements) ==
    [timestamp |-> timestamp, count |-> count, elements |-> MapCollect(elements)]

\* Mutant: no skip_serializing_if, None is written as null
SkipNoneF64AsNull(k, opt) ==
    IF opt.some THEN << <<k, JFloat(opt.val)>> >> ELSE << <<k, JNull>> >>

\* #[serde(skip_serializing_if = "Option::is_none")]
SkipNoneF64(k, opt) == IF opt.some THEN << <<k, JFloat(opt.val)>> >> ELSE <<>>
SkipNoneString(k, opt) == IF opt.some THEN << <<k, JStr(opt.val)>> >> ELSE <<>>

\* derive(Serialize) for ProcessedElement, fields in declaration order
SerProcessedElement(p) ==
    JStruct(<< <<"id", JInt(p.id)>> >>
            \o SkipNoneF64("lat", p.lat)
            \o SkipNoneF64("lon", p.lon)
            \o << <<"timestamp", JStr(p.timestamp)>>,
                  <<"type", JStr(p.element_type)>>,
                  <<"version", JInt(p.version)>> >>
            \o SkipNoneString("user", p.user)
            \o << <<"tags", JObj([k \in DOMAIN p.tags |-> JStr(p.tags[k])])>> >>)

\* derive(Serialize) for ProcessedOutput
SerProcessedOutput(out) ==
    JStruct(<< <<"timestamp", JInt(out.timestamp)>>,
               <<"count", JInt(out.count)>>,
               <<"elements", JArr([i \in 1..Len(out.elements) |->
                                      SerProcessedElement(out.elements[i])])>> >>)

\* ------------------------------------------------------------------------
\* Inputs: response bodies, element lists, timeouts, file sizes
\* ------------------------------------------------------------------------
RequiredFields == {"type", "id", "timestamp", "version", "tags"}
OptionalFields == {"lat", "lon", "changeset", "user", "uid"}
\* "center" is a key the service sends that Element does not name
AllOptional == OptionalFields \cup {"center"}

Kinds == <<"node", "area", "relation">>
GoodTags == JObj([k \in {"amenity"} |-> JStr("charging_station")])

GoodValue(f, id) ==
    CASE f = "type"      -> JStr(Kinds[((id - 1) % 3) + 1])
      [] f = "id"        -> JInt(id)
      [] f = "lat"       -> IF id % 2 = 0 THEN JInt(47) ELSE JFloat(470 + id)
      [] f = "lon"       -> JFloat(80 + id)
      [] f = "timestamp" -> JStr("2024-01-01T00:00:00Z")
      [] f = "version"   -> JInt(3)
      [] f = "changeset" -> JInt(1000 + id)
      [] f = "user"      -> JStr("alice")
      [] f = "uid"       -> JInt(7)
      [] f = "tags"      -> GoodTags
      [] f = "center"    -> JObj([k \in {"lat", "lon"} |-> JFloat(471)])

ElemJson(id, opts) == JObj([f \in RequiredFields \cup opts |-> GoodValue(f, id)])

BadValues(f) ==
    CASE f \in {"id", "version", "changeset", "uid"} -> {JStr("x"), JInt(-1), JFloat(15)}
      [] f \in {"lat", "lon"} -> {JStr("x")}
      [] f \in {"type", "timestamp", "user"} -> {JInt(5)}
      [] f = "tags" -> {JStr("x"), JObj([k \in {"amenity"} |-> JInt(1)])}

Without(o, f) == [k \in (DOMAIN o) \ {f} |-> o[k]]
With(o, f, v) == [k \in (DOMAIN o) \cup {f} |-> IF k = f THEN v ELSE o[k]]

\* an element with one field dropped, null or of the wrong type
Defects(e) ==
    {JObj(Without(e.obj, f)) : f \in RequiredFields \cup OptionalFields}
    \cup {JObj(With(e.obj, f, JNull)) : f \in RequiredFields \cup OptionalFields}
    \cup UNION {{JObj(With(e.obj, f, b)) : b \in BadValues(f)} :
                f \in RequiredFields \cup OptionalFields}

OptChoices == {{}, AllOptional} \cup {{f} : f \in OptionalFields}

CoreElems == {ElemJson(id, opts) : id \in 1..MaxId, opts \in {{}, AllOptional}}
VariedElems ==
    {ElemJson(id, opts) : id \in 1..MaxId, opts \in OptChoices}
    \cup Defects(ElemJson(1, AllOptional))
    \cup {JInt(1), JNull}

SeqsUpTo(S, n) == UNION {[1..k -> S] : k \in 0..n}
CoreSeqs == SeqsUpTo(CoreElems, MaxElems)
\* a core list with one position replaced by any element
VariedSeqs ==
    UNION {{[es EXCEPT ![i] = e] : i \in 1..Len(es), e \in VariedElems} : es \in CoreSeqs}
SingleSeqs == {<<e>> : e \in VariedElems}

TopFields == {"version", "generator", "elements"}
GoodTop(es) ==
    [k \in TopFields |->
        CASE k = "version" -> JFloat(6)
          [] k = "generator" -> JStr("g")
          [] k = "elements" -> JArr(es)]

BadTopValues(f) ==
    CASE f = "version" -> {JStr("0.6"), JNull}
      [] f = "generator" -> {JInt(1), JNull}
      [] f = "elements" -> {JStr("x"), JNull, JObj([k \in {"id"} |-> JInt(1)])}

Remarks == {JStr("runtime error: Query timed out"), JInt(3), JNull,
            JArr(<<JStr("a")>>)}

ShortSeqs == {es \in CoreSeqs : Len(es) <= 1}

BodiesCore == {Json(JObj(GoodTop(es))) : es \in CoreSeqs}
BodiesTop ==
    {NotJson, Json(JNull), Json(JInt(1)), Json(JStr("error"))}
    \cup {Json(JObj([k \in K |-> GoodTop(es)[k]])) : K \in SUBSET TopFields, es \in ShortSeqs}
    \cup UNION {{Json(JObj(With(GoodTop(es), f, b))) : b \in BadTopValues(f)} :
                f \in TopFields, es \in ShortSeqs}
    \cup {Json(JObj(With(GoodTop(es), "version", JInt(1)))) : es \in ShortSeqs}
    \cup {Json(JObj(With(GoodTop(es), "remark", r))) : r \in Remarks, es \in ShortSeqs}
    \cup {Json(JObj(With(With(GoodTop(<<>>), "remark", r), "osm3s", JInt(0)))) : r \in Remarks}

\* the bodies a run may receive, and those parse_response is called on
RunBodies == BodiesCore \cup BodiesTop \cup {Json(JObj(GoodTop(es))) : es \in SingleSeqs}
ParseBodies == RunBodies \cup {Json(JObj(GoodTop(es))) : es \in VariedSeqs}

\* the element lists process_elements is called on
ElementLists == {parse_response(b).val.elements : b \in {x \in ParseBodies : parse_response(x).ok}}

Statuses == {200, 204, 301, 404, 429, 504}
\* Mutant: redirects taken as success
is_success_or_redirect(s) == 200 <= s /\ s < 400

\* http::StatusCode::is_success
is_success(s) == 200 <= s /\ s < 300

ClockTimes == {1704067200, 1704067201}

DefaultTimeout == 900

\* u32 values of --timeout-seconds
TimeoutValues ==
    {FromInt(n) : n \in 0..MaxSmallTimeout}
    \cup {FromInt(DefaultTimeout)}
    \cup {SubSmall(U32Max, n) : n \in {0, TimeoutBuffer - 1, TimeoutBuffer}}

\* u64 file sizes around each power of 1024: m units plus q twentieths of a
\* unit, one byte less, exact, one byte more
UnitPowers == {0, 10, 20, 30, 40, 50, 60}
SizeNear(k, m, q) == Add(ShlBits(FromInt(m), k), DivRem(ShlBits(FromInt(q), k), 20).q)
FmtSizes ==
    LET mid == {SizeNear(k, m, q) : k \in UnitPowers, m \in 0..MaxMult, q \in 0..19}
    IN  mid \cup {AddSmall(a, 1) : a \in mid} \cup {Pred(a) : a \in mid \ {<<>>}}
        \cup {U64Max, Pred(U64Max), AddSmall(Pow2(53), 1), AddSmall(Pow2(53), 3),
              SubSmall(Pow2(64), 1023)}

\* ------------------------------------------------------------------------
\* overpass.rs: download_data and process_elements
\* ------------------------------------------------------------------------
\* What the network does to one request: whether the request went through, the
\* status of the response, and the body when it could be read
NetOutcomes ==
    {[sent |-> FALSE, status |-> 0, body |-> None]}
    \cup {[sent |-> TRUE, status |-> st, body |-> None] : st \in Statuses}
    \cup {[sent |-> TRUE, status |-> st, body |-> Some(b)] : st \in Statuses, b \in BodiesTop}

download_data(net, timeout_seconds) ==
    IF ~net.sent THEN Err(TransportError, "")
    ELSE IF ~is_success(net.status) THEN Err(RemoteError, "")
    ELSE IF ~net.body.some THEN Err(BodyError, "")
    ELSE Ok(net.body.val)

\* What the system clock answers: a time before the epoch is an error
ClockOutcomes == {None} \cup {Some(t) : t \in ClockTimes}

process_elements(elements, now) ==
    IF ~now.some THEN Err(ClockError, "")
    ELSE Ok(MakeProcessedOutput(now.val, Len(elements), elements))

\* ------------------------------------------------------------------------
\* State
\* ------------------------------------------------------------------------
VARIABLES
    pc,                 \* where main is, or "lib" / "returned" for a library call
    keep_intermediate,  \* args.keep_intermediate
    timeout_seconds,    \* args.timeout_seconds
    query,              \* the query text sent
    client_timeout,     \* the timeout of the HTTP client, in seconds
    status,             \* the status of the response, 0 before there is one
    response_bytes,     \* the body read
    overpass_response,  \* the parsed response
    element_count,
    timestamp,          \* the clock reading
    processed,          \* the ProcessedOutput
    json_output,        \* its serialization
    raw_file,           \* what this run left at args.outfile_raw
    gz_file,            \* what this run left at args.outfile_compressed
    err,                \* the error main returned, "" when none
    log,                \* what log_error printed
    clock_reads,        \* how many times SystemTime::now() was called
    call,               \* the library call made, if any
    ret                 \* and what it returned

vars == <<pc, keep_intermediate, timeout_seconds, query, client_timeout, status,
          response_bytes, overpass_response, element_count, timestamp, processed,
          json_output, raw_file, gz_file, err, log, clock_reads, call, ret>>

args == <<keep_intermediate, timeout_seconds>>
net_vars == <<query, client_timeout, status, response_bytes>>
data_vars == <<overpass_response, element_count, timestamp, processed, json_output>>
file_vars == <<raw_file, gz_file>>
lib_vars == <<call, ret>>

NoError == ""
Absent == [state |-> "absent"]
Created == [state |-> "created"]
Partial == [state |-> "partial"]
Complete(content) == [state |-> "complete", content |-> content]
Gzip(json) == [gzip |-> json]
NoCall == [fn |-> "none"]

Blank ==
    /\ query = <<>>
    /\ client_timeout = None
    /\ status = 0
    /\ response_bytes = None
    /\ overpass_response = None
    /\ element_count = 0
    /\ timestamp = None
    /\ processed = None
    /\ json_output = None
    /\ raw_file = Absent
    /\ gz_file = Absent
    /\ err = NoError
    /\ log = <<>>
    /\ clock_reads = 0
    /\ call = NoCall
    /\ ret = None

\* A run of main with its arguments parsed, or a caller about to use the library
Init ==
    /\ Blank
    /\ \/ /\ pc = "start"
          /\ keep_intermediate \in BOOLEAN
          /\ timeout_seconds \in TimeoutValues
       \/ /\ pc = "lib"
          /\ keep_intermediate = FALSE
          /\ timeout_seconds = FromInt(DefaultTimeout)

\* main returns Err(e)
Fail(e) == pc' = "failed" /\ err' = e

\* ------------------------------------------------------------------------
\* main, one action per step that can fail or that leaves something behind
\* ------------------------------------------------------------------------
\* main.rs 141-158: the query text and the HTTP client
BuildClient ==
    /\ pc = "start"
    /\ query' = MainQuery(timeout_seconds)
    /\ \/ /\ client_timeout' = Some(ClientTimeout(timeout_seconds))
          /\ pc' = "send"
          /\ err' = err
       \/ /\ client_timeout' = client_timeout
          /\ Fail(ClientError)
    /\ UNCHANGED <<args, status, response_bytes, data_vars, file_vars, log,
                   clock_reads, lib_vars>>

\* main.rs 160-166: the request is sent and a response, of any status, comes back
Send ==
    /\ pc = "send"
    /\ \/ /\ Fail(TransportError)
          /\ status' = status
       \/ /\ \E st \in Statuses : status' = st
          /\ pc' = "status"
          /\ err' = err
    /\ UNCHANGED <<args, query, client_timeout, response_bytes, data_vars, file_vars,
                   log, clock_reads, lib_vars>>

\* main.rs 168-174
CheckStatus ==
    /\ pc = "status"
    /\ IF ~is_success(status)
       THEN /\ log' = Append(log, <<RemoteError>>)
            /\ Fail(RemoteError)
       ELSE /\ pc' = "body"
            /\ UNCHANGED <<log, err>>
    /\ UNCHANGED <<args, net_vars, data_vars, file_vars, clock_reads, lib_vars>>

\* main.rs 176-179
ReadBody ==
    /\ pc = "body"
    /\ \/ /\ Fail(BodyError)
          /\ response_bytes' = response_bytes
       \/ /\ \E b \in RunBodies : response_bytes' = Some(b)
          /\ pc' = "parse"
          /\ err' = err
    /\ UNCHANGED <<args, query, client_timeout, status, data_vars, file_vars, log,
                   clock_reads, lib_vars>>

\* main.rs 181-183
Parse ==
    /\ pc = "parse"
    /\ LET r == parse_response(response_bytes.val)
       IN  IF r.ok
           THEN /\ overpass_response' = Some(r.val)
                /\ pc' = "count"
                /\ err' = err
           ELSE /\ overpass_response' = overpass_response
                /\ Fail(r.err)
    /\ UNCHANGED <<args, net_vars, element_count, timestamp, processed, json_output,
                   file_vars, log, clock_reads, lib_vars>>

\* main.rs 185-195: the empty check, with the look for a remark in the raw bytes
CheckElements ==
    /\ pc = "count"
    /\ element_count' = Len(overpass_response.val.elements)
    /\ IF element_count' = 0
       THEN /\ log' = LET remark == RemarkProbe(response_bytes.val)
                      IN  log \o << <<"Query failed, found 0 elements.">> >>
                              \o (IF remark.some
                                  THEN << <<"Details: ", remark.val>> >>
                                  ELSE <<>>)
            /\ Fail(EmptyDatasetError)
       ELSE /\ pc' = "save"
            /\ UNCHANGED <<log, err>>
    /\ UNCHANGED <<args, net_vars, overpass_response, timestamp, processed,
                   json_output, file_vars, clock_reads, lib_vars>>

\* Mutant: the raw file written whatever keep_intermediate says
SaveIntermediateAlways ==
    /\ pc = "save"
    /\ \/ /\ raw_file' = Complete(response_bytes.val)
          /\ pc' = "clock"
          /\ err' = err
       \/ /\ raw_file' \in {Absent, Created, Partial}
          /\ Fail(RawWriteError)
    /\ UNCHANGED <<args, net_vars, data_vars, gz_file, log, clock_reads, lib_vars>>

\* main.rs 197-206: std::fs::write may fail before or after it created the file
SaveIntermediate ==
    /\ pc = "save"
    /\ IF keep_intermediate
       THEN \/ /\ raw_file' = Complete(response_bytes.val)
               /\ pc' = "clock"
               /\ err' = err
            \/ /\ raw_file' \in {Absent, Created, Partial}
               /\ Fail(RawWriteError)
       ELSE /\ pc' = "clock"
            /\ UNCHANGED <<raw_file, err>>
    /\ UNCHANGED <<args, net_vars, data_vars, gz_file, log, clock_reads, lib_vars>>

\* main.rs 211-215
ReadClock ==
    /\ pc = "clock"
    /\ clock_reads' = clock_reads + 1
    /\ \E now \in ClockOutcomes :
          IF now.some
          THEN /\ timestamp' = now
               /\ pc' = "process"
               /\ err' = err
          ELSE /\ timestamp' = timestamp
               /\ Fail(ClockError)
    /\ UNCHANGED <<args, net_vars, overpass_response, element_count, processed,
                   json_output, file_vars, log, lib_vars>>

\* main.rs 217-230: the output is built and serialized; to_vec has no failing
\* case on these types
Process ==
    /\ pc = "process"
    /\ processed' = Some(MakeProcessedOutput(timestamp.val, element_count,
                                             overpass_response.val.elements))
    /\ json_output' = Some(SerProcessedOutput(processed'.val))
    /\ pc' = "create"
    /\ UNCHANGED <<args, net_vars, overpass_response, element_count, timestamp,
                   file_vars, err, log, clock_reads, lib_vars>>

\* main.rs 233-234: File::create
CreateFile ==
    /\ pc = "create"
    /\ \/ /\ gz_file' = Created
          /\ pc' = "write"
          /\ err' = err
       \/ /\ gz_file' = gz_file
          /\ Fail(CreateError)
    /\ UNCHANGED <<args, net_vars, data_vars, raw_file, log, clock_reads, lib_vars>>

\* main.rs 235-238: encoder.write_all
WriteAll ==
    /\ pc = "write"
    /\ gz_file' \in {Created, Partial}
    /\ \/ /\ pc' = "finish"
          /\ err' = err
       \/ Fail(WriteError)
    /\ UNCHANGED <<args, net_vars, data_vars, raw_file, log, clock_reads, lib_vars>>

\* main.rs 239-249: encoder.finish, then Ok(())
Finish ==
    /\ pc = "finish"
    /\ \/ /\ gz_file' = Complete(Gzip(json_output.val))
          /\ pc' = "done"
          /\ err' = err
       \/ /\ gz_file' \in {Created, Partial}
          /\ Fail(FinishError)
    /\ UNCHANGED <<args, net_vars, data_vars, raw_file, log, clock_reads, lib_vars>>

\* ------------------------------------------------------------------------
\* Calls of the library functions
\* ------------------------------------------------------------------------
Returned == pc' = "returned"
RunUntouched == UNCHANGED <<args, net_vars, data_vars, file_vars, err, log>>

CallFormatBytes ==
    /\ pc = "lib"
    /\ \E size \in FmtSizes :
          /\ call' = [fn |-> "format_bytes", size |-> size]
          /\ ret' = Some(format_bytes(size))
    /\ Returned
    /\ RunUntouched /\ UNCHANGED clock_reads

CallGetFileSizeHuman ==
    /\ pc = "lib"
    /\ \E size \in FmtSizes :
          /\ call' = [fn |-> "get_file_size_human", size |-> size]
          /\ ret' = Some(get_file_size_human(size))
    /\ Returned
    /\ RunUntouched /\ UNCHANGED clock_reads

CallDownloadData ==
    /\ pc = "lib"
    /\ \E t \in TimeoutValues, net \in NetOutcomes :
          /\ call' = [fn |-> "download_data", timeout_seconds |-> t,
                      query |-> build_query(t), net |-> net]
          /\ ret' = Some(download_data(net, t))
    /\ Returned
    /\ RunUntouched /\ UNCHANGED clock_reads

CallParseResponse ==
    /\ pc = "lib"
    /\ \E b \in ParseBodies :
          /\ call' = [fn |-> "parse_response", response_bytes |-> b]
          /\ ret' = Some(parse_response(b))
    /\ Returned
    /\ RunUntouched /\ UNCHANGED clock_reads

\* process_elements reads the clock first, whatever the list
CallProcessElements ==
    /\ pc = "lib"
    /\ \E es \in ElementLists, now \in ClockOutcomes :
          /\ call' = [fn |-> "process_elements", elements |-> es]
          /\ ret' = Some(process_elements(es, now))
    /\ clock_reads' = clock_reads + 1
    /\ Returned
    /\ RunUntouched

Next ==
    \/ BuildClient
    \/ Send
    \/ CheckStatus
    \/ ReadBody
    \/ Parse
    \/ CheckElements
    \/ SaveIntermediate
    \/ ReadClock
    \/ Process
    \/ CreateFile
    \/ WriteAll
    \/ Finish
    \/ CallFormatBytes
    \/ CallGetFileSizeHuman
    \/ CallDownloadData
    \/ CallParseResponse
    \/ CallProcessElements

Spec == Init /\ [][Next]_vars

\* ------------------------------------------------------------------------
\* Properties
\* ------------------------------------------------------------------------
InMain == pc \notin {"lib", "returned"}
Called(fn) == pc = "returned" /\ call.fn = fn

\* The element list main holds, once parsed
MainElements == overpass_response.val.elements

\* The serialized records of a serialized ProcessedOutput
SerElements(json) == Field(json.struct, "elements").arr

\* Length, order and count of a ProcessedOutput against its source list
SameOrderAndCount(out, es) ==
    /\ out.count = Len(es)
    /\ Len(out.elements) = Len(es)
    /\ \A i \in 1..Len(es) : out.elements[i].id = es[i].id

\* C1: for every non-empty element list, the output built by main and by
\* process_elements has one record per element in the same order
\* (records[i].id = elements[i].id), and count equals the number of elements
\* and of records; the serialized output says the same.
C1_OrderAndCount ==
    /\ (InMain /\ processed.some) =>
          /\ MainElements # <<>>
          /\ SameOrderAndCount(processed.val, MainElements)
    /\ (InMain /\ json_output.some) =>
          /\ Field(json_output.val.struct, "count") = JInt(Len(MainElements))
          /\ Len(SerElements(json_output.val)) = Len(MainElements)
          /\ \A i \in 1..Len(MainElements) :
                Field(SerElements(json_output.val)[i].struct, "id") = JInt(MainElements[i].id)
    /\ (Called("process_elements") /\ call.elements # <<>> /\ ret.val.ok) =>
          SameOrderAndCount(ret.val.val, call.elements)

C1_Witness ==
    /\ pc = "done"
    /\ Len(MainElements) = 2
    /\ MainElements[1].id = 2
    /\ MainElements[2].id = 1
    /\ processed.val.count = 2

\* C2: the transform step on an empty element list always fails with
\* EmptyDatasetError and yields no snapshot, whatever else the response holds:
\* in main, and in a call of process_elements.
C2_EmptyAlwaysFails ==
    /\ (InMain /\ overpass_response.some /\ MainElements = <<>> /\ pc # "count") =>
          /\ pc = "failed"
          /\ err = EmptyDatasetError
          /\ ~processed.some
    /\ (Called("process_elements") /\ call.elements = <<>>) =>
          /\ ~ret.val.ok
          /\ ret.val.err = EmptyDatasetError

\* C2, the part about main alone: an empty list ends the run with
\* EmptyDatasetError, with or without a remark of any type in the body.
C2_MainEmptyFails ==
    (InMain /\ overpass_response.some /\ MainElements = <<>> /\ pc # "count") =>
        /\ pc = "failed"
        /\ err = EmptyDatasetError
        /\ ~processed.some
        /\ gz_file = Absent

\* The shape parse_response asks of a body, written out field by field
IsNumber(j) == Is(j, "int") \/ Is(j, "float")
IsUnsigned(j) == Is(j, "int") /\ j.int >= 0
IsStringMap(j) == Is(j, "obj") /\ \A k \in DOMAIN j.obj : Is(j.obj[k], "str")
AbsentOrNullOr(o, k, good) == k \notin DOMAIN o \/ Is(o[k], "null") \/ good

ElementConforms(j) ==
    /\ Is(j, "obj")
    /\ {"type", "id", "timestamp", "version", "tags"} \subseteq DOMAIN j.obj
    /\ Is(j.obj["type"], "str")
    /\ IsUnsigned(j.obj["id"])
    /\ Is(j.obj["timestamp"], "str")
    /\ IsUnsigned(j.obj["version"])
    /\ IsStringMap(j.obj["tags"])
    /\ AbsentOrNullOr(j.obj, "lat", IsNumber(j.obj["lat"]))
    /\ AbsentOrNullOr(j.obj, "lon", IsNumber(j.obj["lon"]))
    /\ AbsentOrNullOr(j.obj, "changeset", IsUnsigned(j.obj["changeset"]))
    /\ AbsentOrNullOr(j.obj, "user", Is(j.obj["user"], "str"))
    /\ AbsentOrNullOr(j.obj, "uid", IsUnsigned(j.obj["uid"]))

Conforms(b) ==
    /\ b.wf
    /\ Is(b.doc, "obj")
    /\ {"version", "generator", "elements"} \subseteq DOMAIN b.doc.obj
    /\ IsNumber(b.doc.obj["version"])
    /\ Is(b.doc.obj["generator"], "str")
    /\ Is(b.doc.obj["elements"], "arr")
    /\ \A i \in 1..Len(b.doc.obj["elements"].arr) :
          ElementConforms(b.doc.obj["elements"].arr[i])

Validated ==
    /\ status \in 200..299
    /\ response_bytes.some
    /\ overpass_response.some
    /\ Conforms(response_bytes.val)
    /\ MainElements # <<>>

EarlyErrors ==
    {ClientError, TransportError, RemoteError, BodyError, ParseError, EmptyDatasetError}

\* C3: a file is written, and the stages from the raw write on are reached,
\* only after a 2xx status, a successful parse and a non-empty element list;
\* a transport failure, a non-2xx status, a parse failure and an empty dataset
\* end the run with no file; the raw file is written only with
\* keep_intermediate. download_data returns bytes only for a 2xx response.
C3_NoFileBeforeValidation ==
    /\ (\/ raw_file # Absent
        \/ gz_file # Absent
        \/ processed.some
        \/ pc \in {"save", "clock", "process", "create", "write", "finish", "done"})
          => Validated
    /\ raw_file # Absent => keep_intermediate
    /\ err \in EarlyErrors =>
          /\ raw_file = Absent
          /\ gz_file = Absent
          /\ ~processed.some
    /\ (Called("download_data") /\ ret.val.ok) =>
          /\ call.net.sent
          /\ is_success(call.net.status)
          /\ call.net.body = Some(ret.val.val)

C3_Witness ==
    /\ pc = "failed"
    /\ err = RemoteError
    /\ status = 404
    /\ keep_intermediate
    /\ raw_file = Absent

\* C4 as stated: a run that ends with an error at any of the stages named
\* (transport, remote status, parse, empty dataset, clock read, creation or
\* writing of the compressed file) has written neither the raw file nor the
\* compressed file, keep_intermediate or not.
C4_NoFileOnAnyFailure ==
    err \in {TransportError, RemoteError, BodyError, ParseError, EmptyDatasetError,
             ClockError, CreateError, WriteError, FinishError}
        => (raw_file = Absent /\ gz_file = Absent)

RawAsRequested ==
    raw_file = IF keep_intermediate THEN Complete(response_bytes.val) ELSE Absent

\* C4, amended: a failure up to and including the empty check leaves no file.
\* A failed raw write leaves no complete raw file and no compressed file. A
\* clock failure or a failure to create the compressed file leaves no compressed
\* file, and the raw file in full when keep_intermediate. A failure writing or
\* finishing the compressed file leaves that file created but incomplete.
C4_FilesOnFailure ==
    /\ err \in EarlyErrors => (raw_file = Absent /\ gz_file = Absent)
    /\ err = RawWriteError =>
          (keep_intermediate /\ raw_file.state # "complete" /\ gz_file = Absent)
    /\ err \in {ClockError, CreateError} => (gz_file = Absent /\ RawAsRequested)
    /\ err \in {WriteError, FinishError} =>
          (gz_file.state \in {"created", "partial"} /\ RawAsRequested)

C4_Witness ==
    /\ pc = "failed"
    /\ err = ClockError
    /\ keep_intermediate
    /\ raw_file.state = "complete"

\* One record against its source element, and its serialization
Projected(p, e, ser) ==
    /\ DOMAIN p = {"id", "lat", "lon", "timestamp", "element_type", "version", "user",
                   "tags"}
    /\ p.id = e.id /\ p.lat = e.lat /\ p.lon = e.lon /\ p.timestamp = e.timestamp
    /\ p.element_type = e.element_type /\ p.version = e.version
    /\ p.user = e.user /\ p.tags = e.tags
    /\ Keys(ser.struct) \cap {"changeset", "uid"} = {}
    /\ Field(ser.struct, "id") = JInt(e.id)
    /\ Field(ser.struct, "timestamp") = JStr(e.timestamp)
    /\ Field(ser.struct, "type") = JStr(e.element_type)
    /\ Field(ser.struct, "version") = JInt(e.version)
    /\ DOMAIN Field(ser.struct, "tags").obj = DOMAIN e.tags
    /\ \A k \in DOMAIN e.tags : Field(ser.struct, "tags").obj[k] = JStr(e.tags[k])
    /\ e.lat.some => Field(ser.struct, "lat") = JFloat(e.lat.val)
    /\ e.lon.some => Field(ser.struct, "lon") = JFloat(e.lon.val)
    /\ e.user.some => Field(ser.struct, "user") = JStr(e.user.val)

\* C5: every output record carries id, lat, lon, timestamp, type, version,
\* user and tags of its source element, and its serialized form has no
\* changeset and no uid key, also when the source element has them.
C5_Projection ==
    /\ (InMain /\ json_output.some) =>
          \A i \in 1..Len(MainElements) :
              Projected(processed.val.elements[i], MainElements[i],
                        SerElements(json_output.val)[i])
    /\ (Called("process_elements") /\ ret.val.ok) =>
          \A i \in 1..Len(call.elements) :
              Projected(ret.val.val.elements[i], call.elements[i],
                        SerProcessedElement(ret.val.val.elements[i]))

C5_Witness ==
    /\ pc = "done"
    /\ \E i \in 1..Len(MainElements) :
          /\ MainElements[i].changeset.some
          /\ MainElements[i].uid.some
          /\ "changeset" \notin Keys(SerElements(gz_file.content.gzip)[i].struct)

\* the JSON object of the i-th element of the body main read
SourceObject(i) == response_bytes.val.doc.obj["elements"].arr[i].obj
HasValue(o, k) == k \in DOMAIN o /\ ~Is(o[k], "null")

OptionalKeysAsSource(ser, e) ==
    /\ \A k \in {"lat", "lon", "user"} : (k \in Keys(ser.struct)) <=> e[k].some
    /\ \A i \in 1..Len(ser.struct) : ser.struct[i][2] # JNull

\* C6: lat, lon and user are keys of a serialized record exactly when the
\* source element has them; an absent one is left out, never written as null.
C6_OptionalOmitted ==
    /\ (InMain /\ json_output.some) =>
          \A i \in 1..Len(MainElements) :
              /\ OptionalKeysAsSource(SerElements(json_output.val)[i], MainElements[i])
              /\ \A k \in {"lat", "lon", "user"} :
                    (k \in Keys(SerElements(json_output.val)[i].struct))
                        <=> HasValue(SourceObject(i), k)
    /\ (Called("process_elements") /\ ret.val.ok) =>
          \A i \in 1..Len(call.elements) :
              OptionalKeysAsSource(SerProcessedElement(ret.val.val.elements[i]),
                                   call.elements[i])

C6_Witness ==
    /\ pc = "done"
    /\ \E i \in 1..Len(MainElements) :
          /\ ~MainElements[i].lat.some
          /\ ~MainElements[i].lon.some
          /\ Keys(SerElements(gz_file.content.gzip)[i].struct) \cap {"lat", "lon"} = {}

ParsesAsShaped(b, r) ==
    /\ r.ok <=> Conforms(b)
    /\ ~r.ok => r.err = ParseError
    /\ r.ok => Len(r.val.elements) = Len(b.doc.obj["elements"].arr)
    /\ (b.wf /\ Is(b.doc, "obj") /\ "elements" \notin DOMAIN b.doc.obj) => ~r.ok

ExpectedUnit(size) ==
    IF Less(size, Pow2(10)) THEN 1
    ELSE IF Less(size, Pow2(20)) THEN 2
    ELSE IF Less(size, Pow2(30)) THEN 3
    ELSE 4

\* what the conversion of a size to f64 can add or take, times 20
F64Slack(size) ==
    IF BitLen(size) <= 53 THEN <<>> ELSE ShlBits(FromInt(20), BitLen(size) - 54)

\* text is digits "." digit unit, the number being size / 2^shift to the nearest
\* tenth: 2 * |10 * size - tenths * 2^shift| <= 2^shift
OneDecimalOf(text, size, shift, unit) ==
    /\ Len(text) >= 4
    /\ Last(text) = unit
    /\ text[Len(text) - 2] = "."
    /\ IsDigits(SubSeq(text, 1, Len(text) - 3))
    /\ IsDigits(<<text[Len(text) - 1]>>)
    /\ (Len(text) > 4 => text[1] # "0")
    /\ LET tenths == DecodeDecimal(SubSeq(text, 1, Len(text) - 3)
                                   \o <<text[Len(text) - 1]>>)
           lhs == ShlBits(tenths, shift + 1)
           rhs == MulSmall(size, 20)
           half == Add(Pow2(shift), F64Slack(size))
       IN  Leq(lhs, Add(rhs, half)) /\ Leq(rhs, Add(lhs, half))

FormattedByThresholds(text, size) ==
    LET u == ExpectedUnit(size)
    IN  IF u = 1
        THEN /\ Last(text) = "B"
             /\ IsDigits(Front(text))
             /\ (Len(text) > 2 => text[1] # "0")
             /\ DecodeDecimal(Front(text)) = size
        ELSE OneDecimalOf(text, size, 10 * (u - 1), <<"B", "K", "M", "G">>[u])

\* C8: format_bytes picks the unit by integer thresholds: the exact integer
\* and B below 1024, then size/1024 K, size/1024^2 M, and size/1024^3 G from
\* 1024^3 on, each with one decimal; 1024^2 - 1 gives 1024.0K and 1024^4 gives
\* 1024.0G. The report of main.rs does the same.
C8_FormatBytes ==
    /\ Called("format_bytes") =>
          /\ FormattedByThresholds(ret.val, call.size)
          /\ call.size = Pred(Pow2(20)) => ret.val = <<"1", "0", "2", "4", ".", "0", "K">>
          /\ call.size = Pow2(40) => ret.val = <<"1", "0", "2", "4", ".", "0", "G">>
    /\ Called("get_file_size_human") => FormattedByThresholds(ret.val, call.size)

C8_Witness ==
    /\ Called("format_bytes")
    /\ call.size = Pred(Pow2(20))
    /\ ret.val = <<"1", "0", "2", "4", ".", "0", "K">>

\* The number between the head and the tail of a query text
EmbeddedTimeout(q) == DecodeDecimal(SubSeq(q, 2, Len(q) - 1))
QueryEmbeds(q, head, tail, t) ==
    /\ Len(q) >= 3
    /\ Head(q) = head
    /\ Last(q) = tail
    /\ IsDigits(SubSeq(q, 2, Len(q) - 1))
    /\ (Len(q) > 3 => q[2] # "0")
    /\ EmbeddedTimeout(q) = t

\* C9: for every u32 timeout_seconds, the maximum included, the timeout of the
\* HTTP client is the timeout written in the query plus 30, the sum not
\* wrapping, and the timeout written in the query is timeout_seconds.
C9_TimeoutBuffer ==
    /\ (InMain /\ query # <<>>) =>
          QueryEmbeds(query, QueryHeadMain, QueryTailMain, timeout_seconds)
    /\ (InMain /\ client_timeout.some) =>
          /\ client_timeout.val = Add(EmbeddedTimeout(query), FromInt(30))
          /\ Less(timeout_seconds, client_timeout.val)
          /\ Leq(timeout_seconds, U32Max)
    /\ Called("download_data") =>
          QueryEmbeds(call.query, QueryHeadLib, QueryTailLib, call.timeout_seconds)

C9_Witness ==
    /\ pc = "send"
    /\ timeout_seconds = U32Max
    /\ Decimal(client_timeout.val) = <<"4", "2", "9", "4", "9", "6", "7", "3", "2", "5">>

\* C10: the clock is read exactly once, and only after the empty check has
\* passed: never on a run, nor in a call of process_elements, whose element
\* list is empty; a clock failure ends in an error and no snapshot.
C10_ClockOnceAfterValidation ==
    /\ clock_reads <= 1
    /\ (InMain /\ clock_reads = 1) => (overpass_response.some /\ MainElements # <<>>)
    /\ (InMain /\ overpass_response.some /\ MainElements = <<>>) => clock_reads = 0
    /\ (InMain /\ processed.some) => clock_reads = 1
    /\ (InMain /\ err = ClockError) => (~processed.some /\ gz_file = Absent)
    /\ (Called("process_elements") /\ call.elements = <<>>) => clock_reads = 0
    /\ (Called("process_elements") /\ ret.val.ok) => clock_reads = 1

\* C10, the part about main alone
C10_MainClockOnce ==
    /\ InMain => clock_reads <= 1
    /\ (InMain /\ clock_reads = 1) => (overpass_response.some /\ MainElements # <<>>)
    /\ (InMain /\ processed.some) => clock_reads = 1
    /\ (InMain /\ err = ClockError) => (~processed.some /\ gz_file = Absent)

====
